---- MODULE Spec2Model ----
(***************************************************************************)
(* PresentrXiv "dc": a PDF slide-deck viewer with per-slide comments.      *)
(*                                                                         *)
(* Nine specifications share this module:                                 *)
(*   SpecPosters   the REST routes over the posters collection:            *)
(*                 app/api/posters and app/api/posters/[id];               *)
(*   SpecComments  the REST route over the comments collection:            *)
(*                 app/api/comments;                                       *)
(*   Spec          the PosterViewer component against a seeded store:      *)
(*                 pages, zoom and swipes;                                 *)
(*   SpecLoad      the same component: its poster and comment fetches.     *)
(*   SpecCompose   the same component: its comment composer and           *)
(*                 addComment;                                             *)
(*   SpecPaged     the earlier paged viewer without mobile zoom;           *)
(*   SpecList      the viewer that scrolls through all pages on a small    *)
(*                 screen, with its IntersectionObserver;                  *)
(*   SpecUpload    the upload page against the posters routes;             *)
(*   SpecStore     the posters and the comments routes over one database.  *)
(*                                                                         *)
(* JavaScript values are tagged records: Undefined, JNull, Str(s), Num(n), *)
(* Date(n).  Strings are sequences of one-character strings so that trim() *)
(* and toString() are computed, not assumed.                               *)
(***************************************************************************)
EXTENDS Integers, Sequences, FiniteSets

VARIABLES
    \* ---- server: the Mongo database and the wall clock
    dbPosters,          \* collection "posters", in insertion order
    dbComments,         \* collection "comments", in insertion order
    now,                \* Date.now(), in milliseconds
    nextOid,            \* next ObjectId the driver assigns on insertOne
    req,                \* the last HTTP request handled: route, id, query, body (history)
    resp,               \* its response: [status, body]
    \* ---- client: one PosterViewer instance
    posterId,           \* prop
    poster,             \* useState<Poster | null>
    error,              \* useState('')
    numPages,           \* useState(0)
    pageNumber,         \* useState(1)
    comments,           \* useState<Comment[]>([])
    loadingComments,    \* useState(true)
    commentTargetPage,  \* useState(1)
    mobileZoomed,       \* useState(false)
    swipeStart,         \* useRef<{x, y, t} | null>(null)
    isLargeScreen,      \* matchMedia('(min-width: 1024px)'), the lg: breakpoint
    docLoaded,          \* react-pdf <Document> has loaded poster.fileUrl
    scale,              \* TransformWrapper state.scale, in hundredths
    touches,            \* fingers currently on the mobile viewer
    pinching,           \* a pinch gesture moved the scale and has not stopped
    clock,              \* the browser's Date.now(), in milliseconds
    calls,              \* fetches in flight, each [kind, pid]
    ev,                 \* the last viewer event and what it acted on (history)
    \* ---- client: the comment composer
    composerOpen,       \* useState(false)
    composerMode,       \* useState<'add' | 'edit'>('add')
    composerPage,       \* useState(1)
    composerInitialText,\* useState('')
    editCommentId,      \* useState<string | null>(null)
    draft,              \* CommentComposerModal: useState(initialText ?? '')
    posts,              \* addComment calls awaiting their POST, oldest first
    \* ---- client: the scrolling page list of a small screen
    scrollY,            \* window.scrollY, in units of 5% of a page's height
    observerRef,        \* useRef<IntersectionObserver | null>(null)
    byThreshold,        \* the browser reports isIntersecting from the thresholds
    showCommentsDrawerMobile, \* useState(false)
    \* ---- client: one UploadPage instance
    upload              \* its state, the submission under way and the alerts shown

serverVars == <<dbPosters, dbComments, now, nextOid, req, resp>>
composerVars == <<composerOpen, composerMode, composerPage, composerInitialText,
                  editCommentId, posts>>
listVars == <<scrollY, observerRef, byThreshold, showCommentsDrawerMobile>>
viewerVars == <<posterId, poster, error, numPages, pageNumber, comments,
                loadingComments, commentTargetPage, mobileZoomed, swipeStart,
                isLargeScreen, docLoaded, scale, touches, pinching, clock, calls, ev,
                composerVars, draft, listVars>>
vars == <<serverVars, viewerVars, upload>>

----------------------------------------------------------------------------
(* Bounds of the model.                                                    *)
MaxTime == 1        \* the clock runs 0..MaxTime
MaxPosters == 2     \* documents in the posters collection
MaxComments == 2    \* comments ever inserted
MaxPages == 3       \* pages of the longest seeded PDF
MaxClock == 801     \* the browser clock runs 0..MaxClock
MaxInFlight == 1    \* addComment calls awaiting their POST at one time
MaxAdded == 1       \* comments the viewer adds to the seeded collection

----------------------------------------------------------------------------
(* JavaScript values.                                                      *)
Undefined == [undefined |-> TRUE]
JNull == [null |-> TRUE]
Str(s) == [str |-> s]
Num(n) == [num |-> n]
Date(n) == [date |-> n]

IsStr(v) == DOMAIN v = {"str"}
IsNum(v) == DOMAIN v = {"num"}

\* JS truthiness: undefined, null, "" and 0 are falsy.
Truthy(v) ==
    IF v = Undefined \/ v = JNull THEN FALSE
    ELSE IF IsStr(v) THEN v.str # <<>>
    ELSE IF IsNum(v) THEN v.num # 0
    ELSE TRUE

\* a ?? b
Coalesce(a, b) == IF a = Undefined \/ a = JNull THEN b ELSE a

\* a || b
OrElse(a, b) == IF Truthy(a) THEN a ELSE b

Digit(d) == <<"0", "1", "2", "3", "4", "5", "6", "7", "8", "9">>[d + 1]

RECURSIVE Decimal(_)
Decimal(n) == IF n < 10 THEN <<Digit(n)>> ELSE Decimal(n \div 10) \o <<Digit(n % 10)>>

\* v.toString() for the values the handlers call it on
JsToString(v) == IF IsStr(v) THEN v.str ELSE Decimal(v.num)

RECURSIVE TrimStart(_)
TrimStart(s) == IF s # <<>> /\ Head(s) = " " THEN TrimStart(Tail(s)) ELSE s

RECURSIVE TrimEnd(_)
TrimEnd(s) ==
    IF s # <<>> /\ s[Len(s)] = " " THEN TrimEnd(SubSeq(s, 1, Len(s) - 1)) ELSE s

\* String.prototype.trim
Trim(s) == TrimEnd(TrimStart(s))

Anonymous == <<"A", "n", "o", "n", "y", "m", "o", "u", "s">>

\* request.json().catch(() => null): a body that is not JSON
BadJson == [badJson |-> TRUE]

\* body?.f
Field(body, f) == IF body = BadJson \/ f \notin DOMAIN body THEN Undefined ELSE body[f]

----------------------------------------------------------------------------
(* Mongo helpers.                                                          *)

\* insert d into a sequence already sorted by key descending, after its equals
RECURSIVE InsertDesc(_, _, _)
InsertDesc(sorted, d, key) ==
    IF sorted = <<>> THEN <<d>>
    ELSE IF Head(sorted)[key].date >= d[key].date
         THEN <<Head(sorted)>> \o InsertDesc(Tail(sorted), d, key)
         ELSE <<d>> \o sorted

\* cursor.sort({key: -1}).toArray()
RECURSIVE SortDesc(_, _)
SortDesc(docs, key) ==
    IF docs = <<>> THEN <<>>
    ELSE InsertDesc(SortDesc(SubSeq(docs, 1, Len(docs) - 1), key), docs[Len(docs)], key)

\* the least element of a non-empty set of indexes: the first document a
\* findOne / updateOne / deleteOne filter matches
First(I) == CHOOSE i \in I : \A j \in I : i <= j

Remove(docs, i) == SubSeq(docs, 1, i - 1) \o SubSeq(docs, i + 1, Len(docs))

Range(s) == {s[i] : i \in DOMAIN s}

----------------------------------------------------------------------------
(* REST handlers.  Each is an operator from the collection, the clock and  *)
(* the request to [status, body, db]: the response and the collection      *)
(* afterwards.  dbOk = FALSE is a driver call that throws (store           *)
(* unreachable): the handler's catch answers 500.                          *)

Reply(status, body, db) == [status |-> status, body |-> body, db |-> db]

IsLive(p) == p.deletedAt = Undefined

\* GET /api/posters
PostersGET(posters, dbOk) ==
    IF ~dbOk THEN Reply(500, Undefined, posters)
    ELSE Reply(200, SortDesc(posters, "uploadedAt"), posters)

\* a POST that validates the raw strings, without trim(): C8 does not hold of it
PostersPOSTUntrimmed(posters, t, t2, multipart, body, dbOk) ==
    IF multipart THEN Reply(400, Undefined, posters)
    ELSE
      LET title == JsToString(Coalesce(Field(body, "title"), Str(<<>>)))
          fileUrl == JsToString(OrElse(OrElse(Field(body, "fileUrl"), Field(body, "url")),
                                       Str(<<>>)))
          doc == [id |-> Decimal(t), title |-> Trim(title), author |-> Anonymous,
                  fileUrl |-> Trim(fileUrl), uploadedAt |-> Date(t2),
                  deletedAt |-> Undefined]
      IN  IF title = <<>> \/ fileUrl = <<>> THEN Reply(400, Undefined, posters)
          ELSE IF ~dbOk THEN Reply(500, Undefined, posters)
          ELSE Reply(201, doc, Append(posters, doc))

\* POST /api/posters.  t is Date.now() when the id is taken, t2 the later
\* new Date() of uploadedAt (the ping is awaited in between).
PostersPOST(posters, t, t2, multipart, body, dbOk) ==
    IF multipart THEN Reply(400, Undefined, posters)
    ELSE
      LET title == Trim(JsToString(Coalesce(Field(body, "title"), Str(<<>>))))
          author == Trim(JsToString(Coalesce(Field(body, "author"), Str(<<>>))))
          fileUrl == Trim(JsToString(
                         OrElse(OrElse(Field(body, "fileUrl"), Field(body, "url")),
                                Str(<<>>))))
          doc == [id |-> Decimal(t),
                  title |-> title,
                  author |-> IF author = <<>> THEN Anonymous ELSE author,
                  fileUrl |-> fileUrl,
                  uploadedAt |-> Date(t2),
                  deletedAt |-> Undefined]
      IN  IF title = <<>> \/ fileUrl = <<>> THEN Reply(400, Undefined, posters)
          ELSE IF ~dbOk THEN Reply(500, Undefined, posters)
          ELSE Reply(201, doc, Append(posters, doc))

\* GET /api/posters/{id}
PosterGET(posters, id, dbOk) ==
    LET I == {i \in DOMAIN posters : posters[i].id = id /\ IsLive(posters[i])}
    IN  IF ~dbOk THEN Reply(500, Undefined, posters)
        ELSE IF I = {} THEN Reply(404, Undefined, posters)
        ELSE Reply(200, posters[First(I)], posters)

\* DELETE /api/posters/{id}: soft delete
PosterDELETE(posters, t, id, dbOk) ==
    LET I == {i \in DOMAIN posters : posters[i].id = id /\ IsLive(posters[i])}
    IN  IF ~dbOk THEN Reply(500, Undefined, posters)
        ELSE IF I = {} THEN Reply(404, Undefined, posters)
        ELSE Reply(200, [ok |-> TRUE],
                   [posters EXCEPT ![First(I)].deletedAt = Date(t)])

\* a GET without the posterId filter: C10 does not hold of it
CommentsGETUnfiltered(cs, pid, dbOk) ==
    IF ~Truthy(pid) THEN Reply(400, Undefined, cs)
    ELSE IF ~dbOk THEN Reply(500, Undefined, cs)
    ELSE Reply(200, SortDesc(cs, "timestamp"), cs)

\* GET /api/comments?posterId=...   (searchParams.get gives null or a string)
CommentsGET(cs, pid, dbOk) ==
    IF ~Truthy(pid) THEN Reply(400, Undefined, cs)
    ELSE IF ~dbOk THEN Reply(500, Undefined, cs)
    ELSE Reply(200, SortDesc(SelectSeq(cs, LAMBDA c : c.posterId = pid), "timestamp"), cs)

\* POST /api/comments
CommentsPOST(cs, t, oid, body, dbOk) ==
    IF body = BadJson THEN Reply(500, Undefined, cs)
    ELSE
      LET doc == [_id |-> oid,
                  posterId |-> body.posterId,
                  page |-> body.page,
                  text |-> body.text,
                  author |-> OrElse(body.author, Str(Anonymous)),
                  timestamp |-> Date(t)]
      IN  IF ~Truthy(body.posterId) \/ ~Truthy(body.text) \/ body.page = Undefined
          THEN Reply(400, Undefined, cs)
          ELSE IF ~dbOk THEN Reply(500, Undefined, cs)
          ELSE Reply(200, doc, Append(cs, doc))

\* new ObjectId(id): ObjectIds are modelled as the decimal strings of 1, 2, ...;
\* any other string makes the constructor throw.
IsObjectId(s) == s # <<>> /\ \A i \in DOMAIN s : \E d \in 0..9 : s[i] = Digit(d)

\* a DELETE whose filter matches any document: C11 does not hold of it
CommentsDELETEAny(cs, id, dbOk) ==
    IF ~Truthy(id) THEN Reply(400, Undefined, cs)
    ELSE IF ~IsObjectId(id.str) \/ ~dbOk THEN Reply(500, Undefined, cs)
    ELSE IF cs = <<>> THEN Reply(404, Undefined, cs)
    ELSE Reply(200, [success |-> TRUE], Remove(cs, 1))

\* DELETE /api/comments?id=...
CommentsDELETE(cs, id, dbOk) ==
    IF ~Truthy(id) THEN Reply(400, Undefined, cs)
    ELSE IF ~IsObjectId(id.str) \/ ~dbOk THEN Reply(500, Undefined, cs)
    ELSE
      LET I == {i \in DOMAIN cs : Decimal(cs[i]._id) = id.str}
      IN  IF I = {} THEN Reply(404, Undefined, cs)
          ELSE Reply(200, [success |-> TRUE], Remove(cs, First(I)))

----------------------------------------------------------------------------
(* The REST layer as a state machine: any HTTP client may send any request *)
(* at any time.                                                            *)

TitleInputs == {Undefined, Str(<<>>), Str(<<" ">>), Str(<<" ", "a">>)}
AuthorInputs == {Undefined}
FileUrlInputs == {Undefined, Str(<<>>), Str(<<"u">>)}
UrlInputs == {Undefined, Str(<<"u">>)}
PosterBodies ==
    {BadJson} \cup [title : TitleInputs, author : AuthorInputs,
                    fileUrl : FileUrlInputs, url : UrlInputs]

\* the ids a request may name: every id the clock can have produced
IdInputs == {Decimal(t) : t \in 0..MaxTime}

PosterIdInputs == {Undefined, Str(<<"0">>), Str(<<"1">>)}
PageInputs == {Undefined, JNull, Num(3)}
TextInputs == {Undefined, Str(<<>>), Str(<<"h">>)}
CommentBodies ==
    {BadJson} \cup [posterId : PosterIdInputs, page : PageInputs,
                    text : TextInputs, author : AuthorInputs]
CommentIdInputs == {JNull, Str(<<"x">>)} \cup {Str(Decimal(n)) : n \in 1..(MaxComments + 1)}

\* req and resp record the last exchange: the route, the id, query or body it
\* carried, and the answer
Exchange(request, r) ==
    /\ req' = request
    /\ resp' = [status |-> r.status, body |-> r.body]

Tick ==
    /\ now < MaxTime
    /\ now' = now + 1
    /\ UNCHANGED <<dbPosters, dbComments, nextOid, req, resp, viewerVars, upload>>

ApiPostersGET(dbOk) ==
    LET r == PostersGET(dbPosters, dbOk)
    IN  /\ Exchange([op |-> "GET /api/posters"], r)
        /\ UNCHANGED <<dbPosters, dbComments, now, nextOid, viewerVars, upload>>

\* the clock may advance by lag between the handler's two readings
ApiPostersPOST(multipart, body, dbOk, lag) ==
    LET r == PostersPOST(dbPosters, now, now + lag, multipart, body, dbOk)
    IN  /\ now + lag <= MaxTime
        /\ r.status = 201 => Len(dbPosters) < MaxPosters
        /\ Exchange([op |-> "POST /api/posters", body |-> body], r)
        /\ dbPosters' = r.db
        /\ now' = IF r.status = 201 THEN now + lag ELSE now
        /\ UNCHANGED <<dbComments, nextOid, viewerVars, upload>>

ApiPosterGET(id, dbOk) ==
    LET r == PosterGET(dbPosters, id, dbOk)
    IN  /\ Exchange([op |-> "GET /api/posters/{id}", id |-> id], r)
        /\ UNCHANGED <<dbPosters, dbComments, now, nextOid, viewerVars, upload>>

\* a DELETE that takes the poster's comments with it: C30 does not hold of it
ApiPosterDELETECascade(id, dbOk) ==
    LET r == PosterDELETE(dbPosters, now, id, dbOk)
    IN  /\ Exchange([op |-> "DELETE /api/posters/{id}", id |-> id], r)
        /\ dbPosters' = r.db
        /\ dbComments' = IF r.status = 200
                         THEN SelectSeq(dbComments, LAMBDA c : c.posterId # Str(id))
                         ELSE dbComments
        /\ UNCHANGED <<now, nextOid, viewerVars, upload>>

ApiPosterDELETE(id, dbOk) ==
    LET r == PosterDELETE(dbPosters, now, id, dbOk)
    IN  /\ Exchange([op |-> "DELETE /api/posters/{id}", id |-> id], r)
        /\ dbPosters' = r.db
        /\ UNCHANGED <<dbComments, now, nextOid, viewerVars, upload>>

ApiCommentsGET(pid, dbOk) ==
    LET r == CommentsGET(dbComments, pid, dbOk)
    IN  /\ Exchange([op |-> "GET /api/comments", posterId |-> pid], r)
        /\ UNCHANGED <<dbPosters, dbComments, now, nextOid, viewerVars, upload>>

ApiCommentsPOST(body, dbOk) ==
    LET r == CommentsPOST(dbComments, now, nextOid, body, dbOk)
    IN  /\ r.status = 200 => nextOid <= MaxComments
        /\ Exchange([op |-> "POST /api/comments", body |-> body], r)
        /\ dbComments' = r.db
        /\ nextOid' = IF r.status = 200 THEN nextOid + 1 ELSE nextOid
        /\ UNCHANGED <<dbPosters, now, viewerVars, upload>>

\* removed keeps the document the exchange took out of the collection
ApiCommentsDELETE(id, dbOk) ==
    LET r == CommentsDELETE(dbComments, id, dbOk)
        gone == Range(dbComments) \ Range(r.db)
    IN  /\ Exchange([op |-> "DELETE /api/comments", id |-> id,
                     removed |-> IF gone = {} THEN Undefined ELSE CHOOSE c \in gone : TRUE], r)
        /\ dbComments' = r.db
        /\ UNCHANGED <<dbPosters, now, nextOid, viewerVars, upload>>

----------------------------------------------------------------------------
(* The PosterViewer component (the single-page viewer with mobile zoom).   *)
(* It runs against a seeded store: two posters and one comment on each.    *)

SeedPoster(t, url) ==
    [id |-> Decimal(t), title |-> <<"a">>, author |-> Anonymous, fileUrl |-> url,
     uploadedAt |-> Date(t), deletedAt |-> Undefined]

SeedPosters == <<SeedPoster(0, <<"u">>), SeedPoster(1, <<"v">>)>>

SeedComment(oid, pid, page) ==
    [_id |-> oid, posterId |-> Str(pid), page |-> Num(page), text |-> Str(<<"h">>),
     author |-> Str(Anonymous), timestamp |-> Date(1)]

SeedComments == <<SeedComment(1, <<"0">>, 1), SeedComment(2, <<"1">>, 1)>>

\* the posterId values the route can hand to the viewer
ViewerIds == {<<"0">>, <<"1">>}

\* the page count of the PDF behind a file URL (what pdf.js reports on load)
PdfPages(url) == IF url = <<"u">> THEN MaxPages ELSE 1

NoSwipe == [none |-> TRUE]

\* const pdfUrl = poster?.fileUrl || poster?.filepath || ''
pdfUrl == IF poster = JNull THEN <<>> ELSE poster.fileUrl

\* a viewer that puts its controls on screen as soon as the poster is there,
\* loaded document or not: C20 does not hold of it
RenderedBeforeLoad == poster # JNull

\* what is on screen: the early return of the render while poster is null, and
\* <Document>, which renders its children only once the file has loaded
Rendered == poster # JNull /\ docLoaded

\* no clamp at all: C1 does not hold with it
ClampNone(prev, n) == prev

\* clamp applied to both pages when the document reports n pages
Clamp(prev, n) == IF prev < 1 THEN 1 ELSE IF prev > n THEN n ELSE prev

Min(a, b) == IF a < b THEN a ELSE b
Max(a, b) == IF a > b THEN a ELSE b
Abs(a) == IF a < 0 THEN -a ELSE a

FailedToLoad(status) ==
    IF status = 404 THEN "Failed to load poster (404)" ELSE "Failed to load poster (500)"

\* the effect on [posterId]: fetchPoster() and fetchComments() up to their
\* first await
StartFetches(pid) ==
    /\ poster' = JNull
    /\ error' = ""
    /\ loadingComments' = TRUE
    /\ calls' = calls \cup {[kind |-> "poster", pid |-> pid],
                           [kind |-> "comments", pid |-> pid]}

\* unmounting <Document> (poster null, or a new file) drops the loaded PDF,
\* the TransformWrapper and the composer modal under it; a fresh wrapper
\* starts at initialScale 1, a fresh modal with draft = initialText
Unmounted ==
    /\ docLoaded' = FALSE
    /\ scale' = 100
    /\ touches' = 0
    /\ pinching' = FALSE
    /\ draft' = composerInitialText

\* the route hands the viewer another poster id
ChangePoster(pid) ==
    /\ pid # posterId
    /\ posterId' = pid
    /\ StartFetches(pid)
    /\ Unmounted
    /\ ev' = [op |-> "ChangePoster"]
    /\ UNCHANGED <<numPages, pageNumber, comments, commentTargetPage, mobileZoomed,
                   swipeStart, isLargeScreen, clock, serverVars, upload, listVars, composerVars>>

\* fetchPoster() after its await: the response to a request sent for pid.
\* outcome "network" is fetch() rejecting.
FetchPosterDone(pid, outcome) ==
    LET k == [kind |-> "poster", pid |-> pid]
        r == PosterGET(dbPosters, pid, outcome = "ok")
        sameFile == poster # JNull /\ r.status = 200 /\ poster.fileUrl = r.body.fileUrl
    IN  /\ k \in calls
        /\ calls' = calls \ {k}
        /\ IF outcome = "network" THEN
               /\ error' = "Failed to fetch"
               /\ UNCHANGED <<poster, docLoaded, scale, touches, pinching, draft>>
           ELSE IF r.status # 200 THEN
               /\ error' = FailedToLoad(r.status)
               /\ UNCHANGED <<poster, docLoaded, scale, touches, pinching, draft>>
           ELSE
               /\ poster' = r.body
               /\ IF sameFile THEN UNCHANGED <<docLoaded, scale, touches, pinching, draft>>
                  ELSE Unmounted
               /\ UNCHANGED error
        /\ ev' = [op |-> "FetchPosterDone", pid |-> pid, stale |-> pid # posterId,
                  wrote |-> poster' # poster \/ error' # error]
        /\ UNCHANGED <<posterId, numPages, pageNumber, comments, loadingComments,
                       commentTargetPage, mobileZoomed, swipeStart, isLargeScreen,
                       clock, serverVars, upload, listVars, composerVars>>

\* fetchComments() after its await
FetchCommentsDone(pid, outcome) ==
    LET k == [kind |-> "comments", pid |-> pid]
        r == CommentsGET(dbComments, Str(pid), outcome = "ok")
    IN  /\ k \in calls
        /\ calls' = calls \ {k}
        /\ comments' = IF outcome # "network" /\ r.status = 200 THEN r.body ELSE comments
        /\ loadingComments' = FALSE
        /\ ev' = [op |-> "FetchCommentsDone", pid |-> pid, stale |-> pid # posterId,
                  wrote |-> comments' # comments,
                  ok |-> outcome # "network" /\ r.status = 200]
        /\ UNCHANGED <<posterId, poster, error, numPages, pageNumber, commentTargetPage,
                       mobileZoomed, swipeStart, isLargeScreen, docLoaded, scale,
                       touches, pinching, clock, serverVars, upload, listVars,
                   composerVars, draft>>

\* <Document file={pdfUrl} onLoadSuccess={onDocumentLoadSuccess}>
onDocumentLoadSuccess ==
    /\ poster # JNull /\ pdfUrl # <<>> /\ ~docLoaded
    /\ docLoaded' = TRUE
    /\ numPages' = PdfPages(pdfUrl)
    /\ pageNumber' = Clamp(pageNumber, PdfPages(pdfUrl))
    /\ commentTargetPage' = Clamp(commentTargetPage, PdfPages(pdfUrl))
    /\ ev' = [op |-> "onDocumentLoadSuccess"]
    /\ UNCHANGED <<posterId, poster, error, comments, loadingComments, mobileZoomed,
                   swipeStart, isLargeScreen, scale, touches, pinching, clock, calls,
                   serverVars, upload, listVars,
                   composerVars, draft>>

----------------------------------------------------------------------------
(* Navigation.  The desktop grid (hidden lg:grid) takes clicks only on a   *)
(* large screen, the mobile block (block lg:hidden) takes touches only on  *)
(* a small one; both exist only while the document is rendered.            *)

Desktop == Rendered /\ isLargeScreen
Mobile == Rendered /\ ~isLargeScreen

\* the onClick of a page-changing control: both pages follow
GoTo(p) ==
    /\ pageNumber' = p
    /\ commentTargetPage' = p

\* Prev button; a click on the disabled button does nothing
PrevPage ==
    /\ Desktop
    /\ IF pageNumber <= 1 THEN UNCHANGED <<pageNumber, commentTargetPage>>
       ELSE GoTo(Max(1, pageNumber - 1))
    /\ ev' = [op |-> "Prev", page |-> pageNumber]
    /\ UNCHANGED <<posterId, poster, error, numPages, comments, loadingComments,
                   mobileZoomed, swipeStart, isLargeScreen, docLoaded, scale, touches,
                   pinching, clock, calls, serverVars, upload, listVars,
                   composerVars, draft>>

\* Next button; a click on the disabled button does nothing
NextPage ==
    /\ Desktop
    /\ IF numPages = 0 \/ pageNumber >= numPages
       THEN UNCHANGED <<pageNumber, commentTargetPage>>
       ELSE GoTo(Min(numPages, pageNumber + 1))
    /\ ev' = [op |-> "Next", page |-> pageNumber,
              from |-> IF ev.op = "Next" THEN ev.from ELSE pageNumber,
              run |-> IF ev.op = "Next" THEN Min(ev.run + 1, MaxPages + 5) ELSE 1]
    /\ UNCHANGED <<posterId, poster, error, numPages, comments, loadingComments,
                   mobileZoomed, swipeStart, isLargeScreen, docLoaded, scale, touches,
                   pinching, clock, calls, serverVars, upload, listVars,
                   composerVars, draft>>

\* MiniPdfNavigator: one row per page 1..numPages, onJump(page)
onJump(p) ==
    /\ Desktop
    /\ numPages > 0 /\ p \in 1..numPages
    /\ GoTo(p)
    /\ ev' = [op |-> "onJump", page |-> pageNumber]
    /\ UNCHANGED <<posterId, poster, error, numPages, comments, loadingComments,
                   mobileZoomed, swipeStart, isLargeScreen, docLoaded, scale, touches,
                   pinching, clock, calls, serverVars, upload, listVars,
                   composerVars, draft>>

\* window resize / rotation across the 1024px breakpoint, no finger down
Resize ==
    /\ touches = 0
    /\ isLargeScreen' = ~isLargeScreen
    /\ ev' = [op |-> "Resize"]
    /\ UNCHANGED <<posterId, poster, error, numPages, pageNumber, comments,
                   loadingComments, commentTargetPage, mobileZoomed, swipeStart,
                   docLoaded, scale, touches, pinching, clock, calls, serverVars, upload, listVars,
                   composerVars, draft>>

----------------------------------------------------------------------------
(* Touch gestures on the mobile viewer.                                    *)

SwipeMaxMs == 800           \* if (dt > 800) return
SwipeMinPx == 60            \* if (Math.abs(dx) < 60) return
ZoomedAbove == 102          \* state.scale > 1.02

StartXs == {60}
EndXs == {0, 1, 60, 119, 120}
EndYs == {0, 50, 51}
Scales == {100, 102, 250}   \* within minScale 1 .. maxScale 4
ClockSteps == {800, 801}

\* time passes in the browser
ClockTick(d) ==
    /\ clock + d <= MaxClock
    /\ clock' = clock + d
    /\ UNCHANGED <<posterId, poster, error, numPages, pageNumber, comments,
                   loadingComments, commentTargetPage, mobileZoomed, swipeStart,
                   isLargeScreen, docLoaded, scale, touches, pinching, calls, ev,
                   serverVars, upload, listVars,
                   composerVars, draft>>

\* Math.abs(dx) < Math.abs(dy) * 1.2, in tenths
MostlyVertical(dx, dy) == 10 * Abs(dx) < 12 * Abs(dy)

\* the thresholds without the horizontal-dominance test: C5 does not hold with it
IsSwipeAnyAngle(start, x, y, t) ==
    LET dx == x - start.x
        dt == t - start.t
    IN  /\ ~(dt > SwipeMaxMs)
        /\ ~(Abs(dx) < SwipeMinPx)

\* the three early returns of onSwipeEnd, for a gesture from start to (x, y)
\* that ends at time t
IsSwipe(start, x, y, t) ==
    LET dx == x - start.x
        dy == y - start.y
        dt == t - start.t
    IN  /\ ~(dt > SwipeMaxMs)
        /\ ~(Abs(dx) < SwipeMinPx)
        /\ ~MostlyVertical(dx, dy)

\* the page a swipe moves to: dx < 0 is next, otherwise previous
SwipeTarget(start, x) ==
    IF x - start.x < 0
    THEN Min(IF numPages # 0 THEN numPages ELSE pageNumber, pageNumber + 1)
    ELSE Max(1, pageNumber - 1)

\* onTouchStart={onSwipeStart}: one more finger lands on the viewer
onSwipeStart(x) ==
    /\ Mobile
    /\ touches < 2
    /\ touches' = touches + 1
    /\ swipeStart' = IF mobileZoomed \/ touches + 1 # 1 THEN swipeStart
                     ELSE [x |-> x, y |-> 0, t |-> clock]
    /\ ev' = [op |-> "onSwipeStart", x |-> x, t |-> clock]
    /\ UNCHANGED <<posterId, poster, error, numPages, pageNumber, comments,
                   loadingComments, commentTargetPage, mobileZoomed, isLargeScreen,
                   docLoaded, scale, pinching, clock, calls, serverVars, upload, listVars,
                   composerVars, draft>>

\* two fingers move: the library changes the scale (pinch is never disabled)
PinchMove(s) ==
    /\ Mobile
    /\ touches = 2
    /\ s # scale
    /\ scale' = s
    /\ pinching' = TRUE
    /\ ev' = [op |-> "PinchMove"]
    /\ UNCHANGED <<posterId, poster, error, numPages, pageNumber, comments,
                   loadingComments, commentTargetPage, mobileZoomed, swipeStart,
                   isLargeScreen, docLoaded, touches, clock, calls, serverVars, upload, listVars,
                   composerVars, draft>>

\* the swipe handlers that look at no zoom flag (as in the viewer without
\* mobile zoom): every single touch-down is the start.  C4 does not hold of it.
onSwipeEndUnguarded(x, y, libFirst) ==
    LET libStops == pinching \/ (mobileZoomed /\ touches = 1)
        zoomedAfter == IF libStops THEN scale > ZoomedAbove ELSE mobileZoomed
        zoomedSeen == FALSE
        plain == ev.op = "onSwipeStart" /\ touches = 1
        start == IF plain THEN [x |-> ev.x, y |-> 0, t |-> ev.t] ELSE swipeStart
        swiped == ~zoomedSeen /\ start # NoSwipe /\ IsSwipe(start, x, y, clock)
    IN  /\ Mobile
        /\ touches > 0
        /\ touches' = touches - 1
        /\ pinching' = FALSE
        /\ mobileZoomed' = zoomedAfter
        /\ swipeStart' = IF zoomedSeen THEN swipeStart ELSE NoSwipe
        /\ IF swiped THEN GoTo(SwipeTarget(start, x))
           ELSE UNCHANGED <<pageNumber, commentTargetPage>>
        /\ ev' = [op |-> "onSwipeEnd", page |-> pageNumber, target |-> commentTargetPage,
                  zoomed |-> mobileZoomed, plain |-> plain, stopped |-> libStops,
                  fingers |-> touches,
                  dx |-> IF plain THEN x - ev.x ELSE 0,
                  dy |-> IF plain THEN y ELSE 0,
                  dt |-> IF plain THEN clock - ev.t ELSE 0]
        /\ UNCHANGED <<posterId, poster, error, numPages, comments, loadingComments,
                       isLargeScreen, docLoaded, scale, clock, calls, serverVars, upload, listVars,
                   composerVars, draft>>

\* A finger lifts at (x, y).  The touchend reaches the library's listener
\* (onPinchingStop after a pinch, onPanningStop when panning is enabled, both
\* setMobileZoomed(scale > 1.02)) and the viewer's onTouchEnd={onSwipeEnd}.
\* libFirst: the library's update is rendered before onSwipeEnd runs.
\* ev keeps the gesture as the finger made it: plain is one finger that went
\* down and came up with nothing but time in between, dx, dy, dt its travel.
onSwipeEnd(x, y, libFirst) ==
    LET libStops == pinching \/ (mobileZoomed /\ touches = 1)
        zoomedAfter == IF libStops THEN scale > ZoomedAbove ELSE mobileZoomed
        zoomedSeen == IF libFirst THEN zoomedAfter ELSE mobileZoomed
        start == swipeStart
        swiped == ~zoomedSeen /\ start # NoSwipe /\ IsSwipe(start, x, y, clock)
        plain == ev.op = "onSwipeStart" /\ touches = 1
    IN  /\ Mobile
        /\ touches > 0
        /\ touches' = touches - 1
        /\ pinching' = FALSE
        /\ mobileZoomed' = zoomedAfter
        /\ swipeStart' = IF zoomedSeen THEN swipeStart ELSE NoSwipe
        /\ IF swiped THEN GoTo(SwipeTarget(start, x))
           ELSE UNCHANGED <<pageNumber, commentTargetPage>>
        /\ ev' = [op |-> "onSwipeEnd", page |-> pageNumber, target |-> commentTargetPage,
                  zoomed |-> mobileZoomed, plain |-> plain, stopped |-> libStops,
                  fingers |-> touches,
                  dx |-> IF plain THEN x - ev.x ELSE 0,
                  dy |-> IF plain THEN y ELSE 0,
                  dt |-> IF plain THEN clock - ev.t ELSE 0]
        /\ UNCHANGED <<posterId, poster, error, numPages, comments, loadingComments,
                       isLargeScreen, docLoaded, scale, clock, calls, serverVars, upload, listVars,
                   composerVars, draft>>

\* a Fit that clears the flag and leaves the transform: C22 does not hold of it
FitFlagOnly ==
    /\ Mobile
    /\ mobileZoomed' = FALSE
    /\ ev' = [op |-> "Fit"]
    /\ UNCHANGED <<posterId, poster, error, numPages, pageNumber, comments,
                   loadingComments, commentTargetPage, swipeStart, isLargeScreen,
                   docLoaded, scale, touches, pinching, clock, calls, serverVars, upload, listVars,
                   composerVars, draft>>

\* Fit button: zoomRef.current?.resetTransform?.(); setMobileZoomed(false)
Fit ==
    /\ Mobile
    /\ scale' = 100
    /\ mobileZoomed' = FALSE
    /\ ev' = [op |-> "Fit"]
    /\ UNCHANGED <<posterId, poster, error, numPages, pageNumber, comments,
                   loadingComments, commentTargetPage, swipeStart, isLargeScreen,
                   docLoaded, touches, pinching, clock, calls, serverVars, upload, listVars,
                   composerVars, draft>>

----------------------------------------------------------------------------
(* The comment composer: CommentComposerModal and the viewer's handlers    *)
(* around it.  The modal sits inside <Document>, so it exists only while   *)
(* the document is rendered.  Its backdrop covers the page for the mouse   *)
(* and for touches; the controls behind it stay reachable by keyboard.     *)

DraftInputs == {<<>>, <<" ">>, <<" ", "h">>}

\* const pageComments = comments.filter((c) => c.page === commentTargetPage)
pageComments == SelectSeq(comments, LAMBDA c : c.page = Num(commentTargetPage))

\* the composer is open on this very target: mode, page and comment
SameTarget(mode, page, id) ==
    composerOpen /\ composerMode = mode /\ composerPage = page /\ editCommentId = id

\* the five setters of an open handler, and the modal's effect on
\* [open, page, mode, initialText]: setDraft(initialText ?? '') when one of
\* them changed
OpenComposer(mode, page, id, text) ==
    /\ composerMode' = mode
    /\ composerPage' = page
    /\ editCommentId' = id
    /\ composerInitialText' = text
    /\ composerOpen' = TRUE
    /\ draft' = IF composerOpen /\ composerMode = mode /\ composerPage = page
                   /\ composerInitialText = text
                THEN draft ELSE text

\* CommentsPanel's Add button (desktop): onOpenAdd
onOpenAdd ==
    /\ Desktop
    /\ OpenComposer("add", commentTargetPage, JNull, <<>>)
    /\ ev' = [op |-> "OpenAdd", via |-> "panel", page |-> pageNumber,
              same |-> SameTarget("add", commentTargetPage, JNull)]
    /\ UNCHANGED <<posterId, poster, error, numPages, pageNumber, comments,
                   loadingComments, commentTargetPage, mobileZoomed, swipeStart,
                   isLargeScreen, docLoaded, scale, touches, pinching, clock, calls,
                   posts, serverVars, upload, listVars>>

\* CommentsPanel's Edit button on a comment of the panel's page: onOpenEdit
onOpenEdit(i) ==
    /\ Desktop
    /\ ~loadingComments
    /\ i \in DOMAIN pageComments
    /\ OpenComposer("edit", pageComments[i].page.num, pageComments[i]._id,
                    pageComments[i].text.str)
    /\ ev' = [op |-> "OpenEdit", page |-> pageNumber, id |-> pageComments[i]._id,
              same |-> SameTarget("edit", pageComments[i].page.num, pageComments[i]._id)]
    /\ UNCHANGED <<posterId, poster, error, numPages, pageNumber, comments,
                   loadingComments, commentTargetPage, mobileZoomed, swipeStart,
                   isLargeScreen, docLoaded, scale, touches, pinching, clock, calls,
                   posts, serverVars, upload, listVars>>

\* the Add button of the mobile comments block
MobileAdd ==
    /\ Mobile
    /\ OpenComposer("add", pageNumber, JNull, <<>>)
    /\ commentTargetPage' = pageNumber
    /\ ev' = [op |-> "OpenAdd", via |-> "mobile Add", page |-> pageNumber,
              same |-> SameTarget("add", pageNumber, JNull)]
    /\ UNCHANGED <<posterId, poster, error, numPages, pageNumber, comments,
                   loadingComments, mobileZoomed, swipeStart, isLargeScreen, docLoaded,
                   scale, touches, pinching, clock, calls, posts, serverVars, upload, listVars>>

\* the mobile Comment button: resets the zoom, then opens the composer
MobileComment ==
    /\ Mobile
    /\ scale' = 100
    /\ mobileZoomed' = FALSE
    /\ OpenComposer("add", pageNumber, JNull, <<>>)
    /\ commentTargetPage' = pageNumber
    /\ ev' = [op |-> "OpenAdd", via |-> "mobile Comment", page |-> pageNumber,
              same |-> SameTarget("add", pageNumber, JNull)]
    /\ UNCHANGED <<posterId, poster, error, numPages, pageNumber, comments,
                   loadingComments, swipeStart, isLargeScreen, docLoaded, touches,
                   pinching, clock, calls, posts, serverVars, upload, listVars>>

\* what the comment list shows: loading ? 'Loading…' : no comment of the
\* page ? 'No comments yet.' : the comments
CommentsView ==
    IF loadingComments THEN "Loading"
    ELSE IF pageComments = <<>> THEN "No comments yet" ELSE "comments"

\* the textarea's onChange
TypeDraft(d) ==
    /\ Rendered /\ composerOpen
    /\ d # draft
    /\ draft' = d
    /\ ev' = [op |-> "TypeDraft"]
    /\ UNCHANGED <<posterId, poster, error, numPages, pageNumber, comments,
                   loadingComments, commentTargetPage, mobileZoomed, swipeStart,
                   isLargeScreen, docLoaded, scale, touches, pinching, clock, calls,
                   composerVars, serverVars, upload, listVars>>

\* Close button, backdrop click, Escape: onClose
CloseComposer ==
    /\ Rendered /\ composerOpen
    /\ composerOpen' = FALSE
    /\ ev' = [op |-> "Close"]
    /\ UNCHANGED <<posterId, poster, error, numPages, pageNumber, comments,
                   loadingComments, commentTargetPage, mobileZoomed, swipeStart,
                   isLargeScreen, docLoaded, scale, touches, pinching, clock, calls,
                   composerMode, composerPage, composerInitialText, editCommentId, posts, draft,
                   serverVars, upload, listVars>>

\* addComment(targetPage, text) up to its await.  With nothing to send it
\* returns at once, and onSubmit goes on to setComposerOpen(false).
addComment(targetPage, text) ==
    LET trimmed == Trim(text)
    IN  IF trimmed = <<>> THEN composerOpen' = FALSE /\ UNCHANGED posts
        ELSE /\ posts' = Append(posts, [posterId |-> posterId, page |-> targetPage,
                                        text |-> trimmed])
             /\ UNCHANGED composerOpen

\* the modal's Post / Save button: disabled={!draft.trim()},
\* onClick={() => onSubmit(draft.trim())}
PostButton ==
    /\ Rendered /\ composerOpen
    /\ Len(posts) < MaxInFlight
    /\ IF Trim(draft) = <<>> THEN UNCHANGED <<posts, composerOpen>>
       ELSE addComment(composerPage, Trim(draft))
    /\ ev' = [op |-> "Post", draft |-> draft, called |-> Trim(draft) # <<>>,
              before |-> Len(comments), sent |-> Len(posts)]
    /\ UNCHANGED <<posterId, poster, error, numPages, pageNumber, comments,
                   loadingComments, commentTargetPage, mobileZoomed, swipeStart,
                   isLargeScreen, docLoaded, scale, touches, pinching, clock, calls,
                   composerMode, composerPage, composerInitialText, editCommentId, draft, serverVars, upload, listVars>>

\* a shortcut that submits whatever the draft holds: C18 does not hold of it
ShortcutUnguarded ==
    /\ Rendered /\ composerOpen
    /\ Len(posts) < MaxInFlight
    /\ addComment(composerPage, Trim(draft))
    /\ ev' = [op |-> "Shortcut", draft |-> draft, called |-> TRUE,
              before |-> Len(comments), sent |-> Len(posts)]
    /\ UNCHANGED <<posterId, poster, error, numPages, pageNumber, comments,
                   loadingComments, commentTargetPage, mobileZoomed, swipeStart,
                   isLargeScreen, docLoaded, scale, touches, pinching, clock, calls,
                   composerMode, composerPage, composerInitialText, editCommentId, draft, serverVars, upload, listVars>>

\* Ctrl/Cmd+Enter in the open modal: if (draft.trim()) onSubmit(draft.trim())
Shortcut ==
    /\ Rendered /\ composerOpen
    /\ Len(posts) < MaxInFlight
    /\ IF Trim(draft) = <<>> THEN UNCHANGED <<posts, composerOpen>>
       ELSE addComment(composerPage, Trim(draft))
    /\ ev' = [op |-> "Shortcut", draft |-> draft, called |-> Trim(draft) # <<>>,
              before |-> Len(comments), sent |-> Len(posts)]
    /\ UNCHANGED <<posterId, poster, error, numPages, pageNumber, comments,
                   loadingComments, commentTargetPage, mobileZoomed, swipeStart,
                   isLargeScreen, docLoaded, scale, touches, pinching, clock, calls,
                   composerMode, composerPage, composerInitialText, editCommentId, draft, serverVars, upload, listVars>>

\* the JSON body addComment sends for a call
PostBody(p) ==
    [posterId |-> Str(p.posterId), page |-> Num(p.page), text |-> Str(p.text),
     author |-> Str(Anonymous)]

\* an addComment that appends what it sent whatever the answer: C13 does not
\* hold of it
addCommentDoneAlways(i, outcome) ==
    LET body == PostBody(posts[i])
        r == CommentsPOST(dbComments, now, nextOid, body, outcome = "ok")
        ok == outcome # "network" /\ r.status = 200
    IN  /\ i \in DOMAIN posts
        /\ ok => Len(dbComments) < Len(SeedComments) + MaxAdded
        /\ posts' = Remove(posts, i)
        /\ comments' = Append(comments, IF ok THEN r.body
                                        ELSE [_id |-> 0, posterId |-> body.posterId,
                                              page |-> body.page, text |-> body.text,
                                              author |-> body.author,
                                              timestamp |-> Date(now)])
        /\ IF outcome = "network"
           THEN UNCHANGED <<dbComments, nextOid, req, resp, composerOpen>>
           ELSE /\ Exchange([op |-> "POST /api/comments", body |-> body], r)
                /\ dbComments' = r.db
                /\ nextOid' = IF r.status = 200 THEN nextOid + 1 ELSE nextOid
                /\ composerOpen' = FALSE
        /\ ev' = [op |-> "addCommentDone", ok |-> ok, before |-> Len(comments)]
        /\ UNCHANGED <<posterId, poster, error, numPages, pageNumber, loadingComments,
                       commentTargetPage, mobileZoomed, swipeStart, isLargeScreen,
                       docLoaded, scale, touches, pinching, clock, calls, composerMode,
                       composerPage, composerInitialText, editCommentId, draft, dbPosters, now, upload, listVars>>

\* addComment after its await: the server handles the POST and the answer
\* arrives (outcome "network": fetch() rejects and nothing reached the
\* server).  On a rejected fetch addComment throws, so onSubmit never gets to
\* setComposerOpen(false).
addCommentDone(i, outcome) ==
    LET body == PostBody(posts[i])
        r == CommentsPOST(dbComments, now, nextOid, body, outcome = "ok")
        ok == outcome # "network" /\ r.status = 200
    IN  /\ i \in DOMAIN posts
        /\ ok => Len(dbComments) < Len(SeedComments) + MaxAdded
        /\ posts' = Remove(posts, i)
        /\ IF outcome = "network"
           THEN UNCHANGED <<dbComments, nextOid, req, resp, comments, composerOpen>>
           ELSE /\ Exchange([op |-> "POST /api/comments", body |-> body], r)
                /\ dbComments' = r.db
                /\ nextOid' = IF r.status = 200 THEN nextOid + 1 ELSE nextOid
                /\ comments' = IF r.status = 200 THEN Append(comments, r.body)
                               ELSE comments
                /\ composerOpen' = FALSE
        /\ ev' = [op |-> "addCommentDone", ok |-> ok, before |-> Len(comments)]
        /\ UNCHANGED <<posterId, poster, error, numPages, pageNumber, loadingComments,
                       commentTargetPage, mobileZoomed, swipeStart, isLargeScreen,
                       docLoaded, scale, touches, pinching, clock, calls, composerMode,
                       composerPage, composerInitialText, editCommentId, draft, dbPosters, now, upload, listVars>>

----------------------------------------------------------------------------
(* The paged viewer without mobile zoom (the earlier PosterViewer): its    *)
(* desktop grid and comments panel are those above; its mobile block has   *)
(* swipe handlers that look at no zoom flag and a Comment button.          *)

\* onTouchStart={onSwipeStart}: if (e.touches.length !== 1) return
onSwipeStartPaged(x) ==
    /\ Mobile
    /\ touches < 2
    /\ touches' = touches + 1
    /\ swipeStart' = IF touches + 1 # 1 THEN swipeStart
                     ELSE [x |-> x, y |-> 0, t |-> clock]
    /\ ev' = [op |-> "onSwipeStart", x |-> x, t |-> clock]
    /\ UNCHANGED <<posterId, poster, error, numPages, pageNumber, comments,
                   loadingComments, commentTargetPage, mobileZoomed, isLargeScreen,
                   docLoaded, scale, pinching, clock, calls, serverVars, upload, listVars,
                   composerVars, draft>>

\* onTouchEnd={onSwipeEnd}: a swipe calls setPageNumber alone
onSwipeEndPaged(x, y) ==
    LET start == swipeStart
        swiped == start # NoSwipe /\ IsSwipe(start, x, y, clock)
    IN  /\ Mobile
        /\ touches > 0
        /\ touches' = touches - 1
        /\ swipeStart' = NoSwipe
        /\ pageNumber' = IF swiped THEN SwipeTarget(start, x) ELSE pageNumber
        /\ ev' = [op |-> "onSwipeEnd", page |-> pageNumber, target |-> commentTargetPage,
                  swiped |-> swiped]
        /\ UNCHANGED <<posterId, poster, error, numPages, comments, loadingComments,
                       commentTargetPage, mobileZoomed, isLargeScreen, docLoaded, scale,
                       pinching, clock, calls, serverVars, upload, listVars, composerVars, draft>>

\* the mobile Comment button
CommentPaged ==
    /\ Mobile
    /\ OpenComposer("add", pageNumber, JNull, <<>>)
    /\ commentTargetPage' = pageNumber
    /\ ev' = [op |-> "OpenAdd", via |-> "mobile Comment", page |-> pageNumber,
              same |-> SameTarget("add", pageNumber, JNull)]
    /\ UNCHANGED <<posterId, poster, error, numPages, pageNumber, comments,
                   loadingComments, mobileZoomed, swipeStart, isLargeScreen, docLoaded,
                   scale, touches, pinching, clock, calls, posts, serverVars, upload, listVars>>

----------------------------------------------------------------------------
(* The upload page.  handleUpload puts the PDF into the blob store and     *)
(* then POSTs the poster's metadata; upload.phase is its position: "idle", *)
(* "put" (awaiting put()) or "post" (awaiting fetch('/api/posters')).      *)

NoAlert == [text |-> "", detail |-> ""]
NoFile == JNull

\* put() answers with a public URL of the stored object
BlobUrls == {<<"u">>}
\* the metadata another client's upload sends
OtherBodies == {[title |-> Str(<<"a">>), author |-> Undefined,
                 fileUrl |-> Str(<<"w">>), url |-> Undefined]}
\* what the inputs can hold
FileInputs == {NoFile, Str(<<"f">>)}
TitleTexts == {<<>>, <<" ">>, <<" ", "a">>}
AuthorTexts == {<<>>, <<"b">>}
\* error.message of what a rejected promise threw ('Unknown error' when it is
\* not an Error)
ThrownMessages == {"Failed to fetch", "Unknown error"}

\* the page once mounted; failed is the phase whose failure raised the alert
\* now shown (history)
UploadMounted ==
    [file |-> NoFile, title |-> <<>>, author |-> <<>>, uploading |-> FALSE,
     phase |-> "idle", job |-> <<>>, url |-> <<>>, alert |-> NoAlert,
     failed |-> "", pushed |-> <<>>]

\* router.push('/view/{id}') has left the page
UploadGone == upload.pushed # <<>>

\* The inputs' onChange.  What is typed while an upload is under way reaches
\* only a later submission (the closure holds this render's values), so it is
\* taken as typed afterwards.
setFile(f) ==
    /\ ~UploadGone
    /\ ~upload.uploading
    /\ upload' = [upload EXCEPT !.file = f]
    /\ UNCHANGED <<serverVars, viewerVars>>

setTitle(t) ==
    /\ ~UploadGone
    /\ ~upload.uploading
    /\ upload' = [upload EXCEPT !.title = t]
    /\ UNCHANGED <<serverVars, viewerVars>>

setAuthor(a) ==
    /\ ~UploadGone
    /\ ~upload.uploading
    /\ upload' = [upload EXCEPT !.author = a]
    /\ UNCHANGED <<serverVars, viewerVars>>

\* the alert of handleUpload's catch
CatchAlert(message) == [text |-> "Error uploading poster", detail |-> message]

\* the alert of a metadata response that is not ok: errorData.error as the
\* route words it
MetadataAlert(status) ==
    [text |-> "Failed to save poster metadata",
     detail |-> IF status = 400 THEN "title and fileUrl (or url) are required"
                ELSE "Failed to save poster metadata"]

\* what a failed metadata save alerts: the catch when the fetch rejected,
\* else the response's error
PostFailureAlert(outcome, status, message) ==
    IF outcome = "network" THEN CatchAlert(message) ELSE MetadataAlert(status)

SuccessAlert == [text |-> "Poster uploaded successfully!", detail |-> ""]

\* the form's submit: its button is disabled while uploading or without a
\* file or a title, so the handler's own test of file and title passes.
\* The closure keeps the title and author of this render.
handleUpload ==
    /\ ~UploadGone
    /\ ~upload.uploading
    /\ upload.file # NoFile
    /\ upload.title # <<>>
    /\ upload' = [upload EXCEPT !.uploading = TRUE, !.phase = "put",
                                !.job = [title |-> upload.title, author |-> upload.author],
                                !.url = <<>>, !.alert = NoAlert, !.failed = ""]
    /\ UNCHANGED <<serverVars, viewerVars>>

\* put() settles: with the blob's URL, and the metadata fetch is issued; or
\* it rejects, and the catch alerts and the finally clears uploading
putDone(ok, url, message) ==
    /\ upload.phase = "put"
    /\ upload' = IF ok
                 THEN [upload EXCEPT !.phase = "post", !.url = url]
                 ELSE [upload EXCEPT !.phase = "idle", !.uploading = FALSE,
                                     !.job = <<>>,
                                     !.alert = CatchAlert(message),
                                     !.failed = "put"]
    /\ UNCHANGED <<serverVars, viewerVars>>

\* the JSON body of the metadata request
UploadBody ==
    [title |-> Str(Trim(upload.job.title)),
     author |-> Str(IF Trim(upload.job.author) = <<>> THEN Anonymous
                    ELSE Trim(upload.job.author)),
     fileUrl |-> Str(upload.url),
     url |-> Undefined]

\* fetch('/api/posters') settles: the route handles the request and the page
\* reads the answer, or (outcome "network") the fetch rejects and nothing
\* reached the server.  On 201 router.push leaves the page, whose form state
\* goes with it.
postDone(outcome, lag, message) ==
    /\ upload.phase = "post"
    /\ IF outcome = "network"
       THEN /\ upload' = [upload EXCEPT !.phase = "idle", !.uploading = FALSE,
                                        !.job = <<>>, !.url = <<>>,
                                        !.alert = PostFailureAlert(outcome, 0, message),
                                        !.failed = "post"]
            /\ UNCHANGED serverVars
       ELSE LET r == PostersPOST(dbPosters, now, now + lag, FALSE, UploadBody,
                                 outcome = "ok")
            IN  /\ now + lag <= MaxTime
                /\ r.status = 201 => Len(dbPosters) < MaxPosters
                /\ Exchange([op |-> "POST /api/posters", body |-> UploadBody], r)
                /\ dbPosters' = r.db
                /\ now' = IF r.status = 201 THEN now + lag ELSE now
                /\ upload' =
                      IF r.status = 201
                      THEN [UploadMounted EXCEPT !.alert = SuccessAlert,
                                                 !.url = upload.url,
                                                 !.pushed = r.body.id]
                      ELSE [upload EXCEPT !.phase = "idle", !.uploading = FALSE,
                                          !.job = <<>>, !.url = <<>>,
                                          !.alert = PostFailureAlert(outcome, r.status,
                                                                     message),
                                          !.failed = "post"]
                /\ UNCHANGED <<dbComments, nextOid>>
    /\ UNCHANGED viewerVars

\* /view/{id} fetches the poster the page pushed
ViewPushed(dbOk) ==
    /\ UploadGone
    /\ LET r == PosterGET(dbPosters, upload.pushed, dbOk)
       IN  Exchange([op |-> "GET /api/posters/{id}", id |-> upload.pushed], r)
    /\ UNCHANGED <<dbPosters, dbComments, now, nextOid, viewerVars, upload>>

\* the user comes back to /upload: a fresh page
VisitUpload ==
    /\ UploadGone
    /\ upload' = UploadMounted
    /\ UNCHANGED <<serverVars, viewerVars>>

----------------------------------------------------------------------------
(* The scrolling viewer.  On a small screen every page is rendered in one  *)
(* column, and an IntersectionObserver on the page elements follows the    *)
(* scroll.  Lengths are in units of 5% of a page element's height.         *)

\* the height of one page element
PageHeight == 20

\* the height of the viewport: slides in landscape on a phone held upright
ViewHeight == 2 * PageHeight

\* { threshold: [0.55, 0.7, 0.85] }, in percent
Thresholds == <<55, 70, 85>>

\* the furthest the column of n pages scrolls
MaxScroll(n) == Max(0, n * PageHeight - ViewHeight)

\* the part of page i inside the viewport at offset y, bottom minus top
Overlap(i, y) == Min(i * PageHeight, y + ViewHeight) - Max((i - 1) * PageHeight, y)

\* entry.intersectionRatio of page i at offset y, in percent
IntersectionRatio(i, y) == (Max(0, Overlap(i, y)) * 100) \div PageHeight

\* the observer's threshold index of a ratio: how many thresholds it has reached
ThresholdIndex(r) == Cardinality({k \in DOMAIN Thresholds : Thresholds[k] <= r})

\* entry.isIntersecting of page i at offset y: the rectangles meet (an edge
\* in common is enough), or in a browser that derives it from the
\* thresholds, the ratio has reached the first of them
IsIntersecting(i, y) ==
    IF byThreshold THEN ThresholdIndex(IntersectionRatio(i, y)) > 0
    ELSE Overlap(i, y) >= 0

\* what the observer remembers of a target between two notifications
Observed(i, y) ==
    [index |-> ThresholdIndex(IntersectionRatio(i, y)), intersecting |-> IsIntersecting(i, y)]

\* new IntersectionObserver(callback, ...) and observe() of the n page
\* elements; the callback closes over the pageNumber of this render
NewObserver(p, n) ==
    [page |-> p, last |-> [i \in 1..n |-> [index |-> -1, intersecting |-> FALSE]]]

\* the effect on [isLargeScreen, numPages]: nothing on a large screen or
\* without pages, otherwise a new observer; the old one is disconnected
ObserveEffect(large, p, n) ==
    observerRef' = IF large \/ n = 0 THEN JNull ELSE NewObserver(p, n)

\* setPageNumber(page) and commentTargetPage too: C25 does not hold of it
ObserverSetBoth(page) == GoTo(page)

\* if (page && page !== pageNumber) setPageNumber(page)
ObserverSet(page) ==
    /\ pageNumber' = page
    /\ UNCHANGED commentTargetPage

\* onDocumentLoadSuccess of the scrolling viewer, and the effect that the
\* new numPages triggers
onDocumentLoadSuccessList(thr) ==
    /\ poster # JNull /\ pdfUrl # <<>> /\ ~docLoaded
    /\ docLoaded' = TRUE
    /\ numPages' = PdfPages(pdfUrl)
    /\ pageNumber' = Clamp(pageNumber, PdfPages(pdfUrl))
    /\ commentTargetPage' = Clamp(commentTargetPage, PdfPages(pdfUrl))
    /\ ObserveEffect(isLargeScreen, Clamp(pageNumber, PdfPages(pdfUrl)), PdfPages(pdfUrl))
    /\ byThreshold' = thr
    /\ ev' = [op |-> "onDocumentLoadSuccess"]
    /\ UNCHANGED <<posterId, poster, error, comments, loadingComments, mobileZoomed,
                   swipeStart, isLargeScreen, scale, touches, pinching, clock, calls,
                   serverVars, upload, scrollY, showCommentsDrawerMobile,
                   composerVars, draft>>

\* window resize across the 1024px breakpoint, and the effect that the new
\* isLargeScreen triggers
ResizeList ==
    /\ touches = 0
    /\ isLargeScreen' = ~isLargeScreen
    /\ ObserveEffect(~isLargeScreen, pageNumber, numPages)
    /\ ev' = [op |-> "Resize"]
    /\ UNCHANGED <<posterId, poster, error, numPages, pageNumber, comments,
                   loadingComments, commentTargetPage, mobileZoomed, swipeStart,
                   docLoaded, scale, touches, pinching, clock, calls, serverVars, upload,
                   scrollY, byThreshold, showCommentsDrawerMobile,
                   composerVars, draft>>

\* the user scrolls the column to offset y
Scroll(y) ==
    /\ Mobile
    /\ y \in 0..MaxScroll(numPages) /\ y # scrollY
    /\ scrollY' = y
    /\ ev' = [op |-> "scroll"]
    /\ UNCHANGED <<posterId, poster, error, numPages, pageNumber, comments,
                   loadingComments, commentTargetPage, mobileZoomed, swipeStart,
                   isLargeScreen, docLoaded, scale, touches, pinching, clock, calls,
                   serverVars, upload, observerRef, byThreshold, showCommentsDrawerMobile,
                   composerVars, draft>>

\* the pages whose threshold index or isIntersecting is no longer what the
\* observer last saw: the entries of the next notification, in page order
Entries ==
    {i \in 1..numPages : Observed(i, scrollY) # observerRef.last[i]}

\* entries.filter(isIntersecting).sort(by intersectionRatio, descending)[0]:
\* the sort is stable, so of equal ratios the first page wins; 0 for undefined
Visible(entries) ==
    LET shown == {i \in entries : IsIntersecting(i, scrollY)}
    IN  IF shown = {} THEN 0
        ELSE CHOOSE i \in shown : \A j \in shown :
                 \/ IntersectionRatio(j, scrollY) < IntersectionRatio(i, scrollY)
                 \/ IntersectionRatio(j, scrollY) = IntersectionRatio(i, scrollY) /\ i <= j

\* the observer notifies: the callback of the effect
ObserverNotify ==
    /\ Mobile /\ observerRef # JNull
    /\ Entries # {}
    /\ observerRef' = [observerRef EXCEPT !.last = [i \in 1..numPages |-> Observed(i, scrollY)]]
    /\ IF Visible(Entries) # 0 /\ Visible(Entries) # observerRef.page
       THEN ObserverSet(Visible(Entries))
       ELSE UNCHANGED <<pageNumber, commentTargetPage>>
    /\ ev' = [op |-> "observer", entries |-> Entries, page |-> pageNumber]
    /\ UNCHANGED <<posterId, poster, error, numPages, comments, loadingComments,
                   mobileZoomed, swipeStart, isLargeScreen, docLoaded, scale, touches,
                   pinching, clock, calls, serverVars, upload, scrollY, byThreshold,
                   showCommentsDrawerMobile, composerVars, draft>>

\* a tap on the header of page n, which is on screen
TapHeader(n) ==
    /\ Mobile
    /\ n \in 1..numPages /\ Overlap(n, scrollY) > 0
    /\ commentTargetPage' = n
    /\ showCommentsDrawerMobile' = TRUE
    /\ ev' = [op |-> "header", n |-> n]
    /\ UNCHANGED <<posterId, poster, error, numPages, pageNumber, comments,
                   loadingComments, mobileZoomed, swipeStart, isLargeScreen, docLoaded,
                   scale, touches, pinching, clock, calls, serverVars, upload, scrollY,
                   observerRef, byThreshold, composerVars, draft>>

----------------------------------------------------------------------------
(* Initial states and specifications.                                      *)

NoExchange == [op |-> "none", status |-> 0]

\* the viewer once mounted with posterId = pid, its effects run
ViewerMounted(pid, large) ==
    /\ posterId = pid
    /\ poster = JNull
    /\ error = ""
    /\ numPages = 0
    /\ pageNumber = 1
    /\ comments = <<>>
    /\ loadingComments = TRUE
    /\ commentTargetPage = 1
    /\ mobileZoomed = FALSE
    /\ swipeStart = NoSwipe
    /\ isLargeScreen = large
    /\ docLoaded = FALSE
    /\ scale = 100
    /\ touches = 0
    /\ pinching = FALSE
    /\ clock = 0
    /\ calls = {[kind |-> "poster", pid |-> pid], [kind |-> "comments", pid |-> pid]}
    /\ ev = [op |-> "mount"]
    /\ composerOpen = FALSE
    /\ composerMode = "add"
    /\ composerPage = 1
    /\ composerInitialText = <<>>
    /\ editCommentId = JNull
    /\ draft = <<>>
    /\ posts = <<>>
    /\ scrollY = 0
    /\ observerRef = JNull
    /\ byThreshold = FALSE
    /\ showCommentsDrawerMobile = FALSE

\* an empty database
InitApi ==
    /\ dbPosters = <<>>
    /\ dbComments = <<>>
    /\ now = 0
    /\ nextOid = 1
    /\ req = NoExchange
    /\ resp = NoExchange
    /\ ViewerMounted(<<"0">>, FALSE)
    /\ upload = UploadMounted

\* the seeded database and a freshly mounted viewer
Init ==
    /\ dbPosters = SeedPosters
    /\ dbComments = SeedComments
    /\ now = 1
    /\ nextOid = 3
    /\ req = NoExchange
    /\ resp = NoExchange
    /\ \E pid \in ViewerIds, large \in BOOLEAN : ViewerMounted(pid, large)
    /\ upload = UploadMounted

Outcomes == {"ok", "error", "network"}

Lags == {0, 1}
CommentQueryInputs == {JNull, Str(<<"0">>), Str(<<"1">>)}

NextPosters ==
    \/ Tick
    \/ \E dbOk \in BOOLEAN : ApiPostersGET(dbOk)
    \/ \E body \in PosterBodies, dbOk \in BOOLEAN, lag \in Lags :
          ApiPostersPOST(FALSE, body, dbOk, lag)
    \/ ApiPostersPOST(TRUE, BadJson, TRUE, 0)
    \/ \E id \in IdInputs, dbOk \in BOOLEAN : ApiPosterGET(id, dbOk)
    \/ \E id \in IdInputs, dbOk \in BOOLEAN : ApiPosterDELETE(id, dbOk)

NextComments ==
    \/ Tick
    \/ \E pid \in CommentQueryInputs, dbOk \in BOOLEAN : ApiCommentsGET(pid, dbOk)
    \/ \E body \in CommentBodies, dbOk \in BOOLEAN : ApiCommentsPOST(body, dbOk)
    \/ \E id \in CommentIdInputs, dbOk \in BOOLEAN : ApiCommentsDELETE(id, dbOk)

\* the viewer's navigation and gestures; the comment list is followed in
\* NextLoad
Next ==
    \/ \E pid \in ViewerIds : ChangePoster(pid)
    \/ \E pid \in ViewerIds, o \in Outcomes : FetchPosterDone(pid, o)
    \/ onDocumentLoadSuccess
    \/ PrevPage
    \/ NextPage
    \/ \E p \in 1..MaxPages : onJump(p)
    \/ Resize
    \/ \E d \in ClockSteps : ClockTick(d)
    \/ \E x \in StartXs : onSwipeStart(x)
    \/ \E s \in Scales : PinchMove(s)
    \/ \E x \in EndXs, y \in EndYs, libFirst \in BOOLEAN : onSwipeEnd(x, y, libFirst)
    \/ Fit

\* the viewer's fetches
NextLoad ==
    \/ \E pid \in ViewerIds : ChangePoster(pid)
    \/ \E pid \in ViewerIds, o \in Outcomes : FetchPosterDone(pid, o)
    \/ \E pid \in ViewerIds, o \in Outcomes : FetchCommentsDone(pid, o)
    \/ onDocumentLoadSuccess
    \/ PrevPage
    \/ NextPage
    \/ Resize

\* the viewer's composer and addComment
NextCompose ==
    \/ \E pid \in ViewerIds : FetchPosterDone(pid, "ok")
    \/ \E pid \in ViewerIds : FetchCommentsDone(pid, "ok")
    \/ onDocumentLoadSuccess
    \/ NextPage
    \/ Resize
    \/ onOpenAdd
    \/ \E i \in 1..(Len(SeedComments) + MaxAdded) : onOpenEdit(i)
    \/ MobileAdd
    \/ MobileComment
    \/ \E d \in DraftInputs : TypeDraft(d)
    \/ CloseComposer
    \/ PostButton
    \/ Shortcut
    \/ \E i \in 1..MaxInFlight, o \in Outcomes : addCommentDone(i, o)

\* the posters routes
SpecPosters == InitApi /\ [][NextPosters]_vars

\* the comments route
SpecComments == InitApi /\ [][NextComments]_vars

\* the viewer: pages, zoom and swipes
Spec == Init /\ [][Next]_vars

\* the viewer: loading the poster and its comments
SpecLoad == Init /\ [][NextLoad]_vars

\* the viewer: composing and adding comments
SpecCompose == Init /\ [][NextCompose]_vars

\* the paged viewer without mobile zoom
NextPaged ==
    \/ \E pid \in ViewerIds : FetchPosterDone(pid, "ok")
    \/ onDocumentLoadSuccess
    \/ PrevPage
    \/ NextPage
    \/ \E p \in 1..MaxPages : onJump(p)
    \/ Resize
    \/ \E x \in StartXs : onSwipeStartPaged(x)
    \/ \E x \in EndXs, y \in EndYs : onSwipeEndPaged(x, y)
    \/ CommentPaged
    \/ onOpenAdd
    \/ CloseComposer

SpecPaged == Init /\ [][NextPaged]_vars

\* the comments that viewers of the two posters post
ViewerBodies ==
    {[posterId |-> Str(id), page |-> Num(1), text |-> Str(<<"h">>), author |-> Str(Anonymous)] :
        id \in ViewerIds}

\* the posters and the comments routes over one database
NextStore ==
    \/ Tick
    \/ \E body \in OtherBodies : ApiPostersPOST(FALSE, body, TRUE, 0)
    \/ \E id \in ViewerIds, dbOk \in BOOLEAN : ApiPosterDELETE(id, dbOk)
    \/ \E pid \in CommentQueryInputs : ApiCommentsGET(pid, TRUE)
    \/ \E body \in ViewerBodies : ApiCommentsPOST(body, TRUE)

SpecStore == InitApi /\ [][NextStore]_vars

\* the scrolling viewer: the page list of a small screen, the grid of a large one
NextList ==
    \/ \E pid \in ViewerIds : FetchPosterDone(pid, "ok")
    \/ \E thr \in BOOLEAN : onDocumentLoadSuccessList(thr)
    \/ PrevPage
    \/ NextPage
    \/ \E p \in 1..MaxPages : onJump(p)
    \/ ResizeList
    \/ \E y \in 0..MaxScroll(MaxPages) : Scroll(y)
    \/ ObserverNotify
    \/ \E n \in 1..MaxPages : TapHeader(n)

SpecList == Init /\ [][NextList]_vars

\* the upload page and the posters routes, other clients posting too
NextUpload ==
    \/ Tick
    \/ \E body \in OtherBodies, lag \in Lags : ApiPostersPOST(FALSE, body, TRUE, lag)
    \/ \E f \in FileInputs : setFile(f)
    \/ \E t \in TitleTexts : setTitle(t)
    \/ \E a \in AuthorTexts : setAuthor(a)
    \/ handleUpload
    \/ \E ok \in BOOLEAN, url \in BlobUrls, m \in ThrownMessages : putDone(ok, url, m)
    \/ \E o \in Outcomes, lag \in Lags, m \in ThrownMessages : postDone(o, lag, m)
    \/ \E dbOk \in BOOLEAN : ViewPushed(dbOk)
    \/ VisitUpload

SpecUpload == InitApi /\ [][NextUpload]_vars

----------------------------------------------------------------------------
(* Properties of the posters routes, checked under SpecPosters.            *)

\* C2: a successful GET /api/posters lists only posters that have not been
\* deleted, newest upload first; so a poster deleted through
\* DELETE /api/posters/{id} is absent from the next list.
C2_ListOnlyLive ==
    (req.op = "GET /api/posters" /\ resp.status = 200) =>
        /\ \A i \in DOMAIN resp.body : IsLive(resp.body[i])
        /\ \A i, j \in DOMAIN resp.body :
              i < j => resp.body[i].uploadedAt.date >= resp.body[j].uploadedAt.date

\* C3: GET /api/posters/{id} answers 200 only with a stored poster of that id
\* that has not been deleted; for an id no poster has, and for an id that has
\* been deleted, it answers 404 (500 apart: the store was unreachable).
C3_GetByIdOnlyLive ==
    (req.op = "GET /api/posters/{id}" /\ resp.status # 500) =>
        /\ resp.status = 200 =>
              resp.body \in Range(dbPosters) /\ resp.body.id = req.id /\ IsLive(resp.body)
        /\ (\A p \in Range(dbPosters) : p.id # req.id) => resp.status = 404
        /\ (\E p \in Range(dbPosters) : p.id = req.id /\ ~IsLive(p)) => resp.status = 404

\* a title that is missing, empty or only spaces
BlankTitle(body) ==
    \/ body = BadJson
    \/ body.title = Undefined
    \/ IsStr(body.title) /\ \A i \in DOMAIN body.title.str : body.title.str[i] = " "

\* no file URL: neither fileUrl nor its alias url carries a non-empty string
NoFileUrl(body) ==
    \/ body = BadJson
    \/ \A f \in {"fileUrl", "url"} : body[f] = Undefined \/ body[f] = Str(<<>>)

\* C8: POST /api/posters with a missing, empty or whitespace-only title, or
\* with a missing or empty file URL, answers 4xx and leaves the posters
\* collection as it was: for every such body on every reachable collection,
\* and in every exchange that carried one.
C8_InvalidPosterRejected ==
    /\ \A body \in PosterBodies, dbOk \in BOOLEAN, lag \in Lags :
          (BlankTitle(body) \/ NoFileUrl(body)) =>
              LET r == PostersPOST(dbPosters, now, now + lag, FALSE, body, dbOk)
              IN  r.status \in 400..499 /\ r.db = dbPosters
    /\ (req.op = "POST /api/posters" /\ (BlankTitle(req.body) \/ NoFileUrl(req.body)))
          => resp.status \in 400..499

\* a whitespace-only title (with a file URL) was posted to a collection that
\* holds a poster, and was refused
C8_Witness ==
    /\ req.op = "POST /api/posters"
    /\ req.body # BadJson
    /\ req.body.title = Str(<<" ">>)
    /\ ~NoFileUrl(req.body)
    /\ resp.status = 400
    /\ dbPosters # <<>>

----------------------------------------------------------------------------
(* Properties of the comments route, checked under SpecComments.           *)

\* C9: POST /api/comments with a missing text or a missing page answers 4xx
\* and leaves the comments collection as it was; every stored comment has a
\* non-empty text and a page number.
C9_StoredCommentsComplete ==
    /\ \A body \in CommentBodies \ {BadJson}, dbOk \in BOOLEAN :
          (body.text = Undefined \/ body.page = Undefined) =>
              LET r == CommentsPOST(dbComments, now, nextOid, body, dbOk)
              IN  r.status \in 400..499 /\ r.db = dbComments
    /\ \A c \in Range(dbComments) :
          IsStr(c.text) /\ c.text.str # <<>> /\ IsNum(c.page)

\* the comments GET /api/comments?posterId=q returns from the collection
Listing(q) == Range(CommentsGET(dbComments, q, TRUE).body)

\* C10: a created comment is stored with the posterId, page and text of the
\* request; GET /api/comments?posterId=p returns every stored comment of
\* poster p, page and text as stored, and for q # p never includes it.
C10_CommentsByPoster ==
    /\ (req.op = "POST /api/comments" /\ resp.status = 200) =>
          \E c \in Range(dbComments) :
              /\ c._id = resp.body._id
              /\ c.posterId = req.body.posterId
              /\ c.page = req.body.page
              /\ c.text = req.body.text
    /\ \A c \in Range(dbComments), q \in CommentQueryInputs \ {JNull} :
          (c \in Listing(q)) <=> (q = c.posterId)
    /\ (req.op = "GET /api/comments" /\ resp.status = 200) =>
          Range(resp.body) = {c \in Range(dbComments) : c.posterId = req.posterId}

\* a list was fetched for one poster and returned its comment, while the
\* collection also holds a comment of another poster
C10_Witness ==
    /\ req.op = "GET /api/comments"
    /\ resp.status = 200
    /\ resp.body # <<>>
    /\ \E c \in Range(dbComments) : c.posterId # req.posterId

----------------------------------------------------------------------------
(* Properties of the viewer's pages, zoom and swipes, checked under Spec.  *)

\* C1: while a document of N >= 1 pages is shown, pageNumber is within 1..N
\* whatever Next, Prev, thumbnail jumps and swipes came before; k presses of
\* Next in a row from page p end on min(N, p + k), so N + 5 presses from page
\* 1 end on page N.
C1_PageInRange ==
    /\ Rendered =>
          numPages = PdfPages(pdfUrl) /\ numPages >= 1 /\ pageNumber \in 1..numPages
    /\ ev.op = "Next" =>
          pageNumber = (IF ev.from + ev.run > numPages THEN numPages ELSE ev.from + ev.run)

\* Next was pressed N + 5 times in a row from page 1 of the longest document
C1_Witness ==
    /\ ev.op = "Next"
    /\ ev.from = 1
    /\ numPages = MaxPages
    /\ ev.run = numPages + 5
    /\ pageNumber = numPages

\* C4: a finger lifted while the view is zoomed (the zoomed flag set and the
\* scale above 1.02) changes neither pageNumber nor commentTargetPage, however
\* the drag ran; so the standard swipe does nothing there.
C4_ZoomedSwipeIgnored ==
    (ev.op = "onSwipeEnd" /\ ev.zoomed /\ scale > ZoomedAbove) =>
        pageNumber = ev.page /\ commentTargetPage = ev.target

\* a one-finger leftward drag of 60px, level and immediate, ended on a zoomed
\* view with a next page to go to, and the page stayed
C4_Witness ==
    /\ ev.op = "onSwipeEnd"
    /\ ev.plain /\ ev.zoomed /\ scale > ZoomedAbove
    /\ ev.dx = -60 /\ ev.dy = 0 /\ ev.dt = 0
    /\ ev.page < numPages
    /\ pageNumber = ev.page

\* the last event was a one-finger drag made on the idle view: zoomed flag
\* off, scale at fit
IdleDrag ==
    ev.op = "onSwipeEnd" /\ ev.plain /\ ~ev.zoomed /\ scale <= ZoomedAbove

\* C5 as stated: on the idle view a one-finger drag with |dx| >= 60px, under
\* 800ms and |dx| >= 1.2|dy| moves pageNumber by exactly one (left = next,
\* right = previous); any other drag leaves it.
C5_SwipeByExactlyOne ==
    IdleDrag =>
        IF Abs(ev.dx) >= 60 /\ ev.dt < 800 /\ 10 * Abs(ev.dx) >= 12 * Abs(ev.dy)
        THEN pageNumber = ev.page + (IF ev.dx < 0 THEN 1 ELSE -1)
        ELSE pageNumber = ev.page

\* C5: on the idle view a one-finger drag with |dx| >= 60px, at most 800ms
\* and |dx| >= 1.2|dy| moves pageNumber one step in the drag's direction
\* (left = next, right = previous) but never outside 1..numPages; any other
\* drag leaves it.
C5_SwipeOneStepClamped ==
    IdleDrag =>
        IF Abs(ev.dx) >= 60 /\ ev.dt <= 800 /\ 10 * Abs(ev.dx) >= 12 * Abs(ev.dy)
        THEN pageNumber = (IF ev.dx < 0
                           THEN (IF ev.page + 1 > numPages THEN numPages ELSE ev.page + 1)
                           ELSE (IF ev.page - 1 < 1 THEN 1 ELSE ev.page - 1))
        ELSE pageNumber = ev.page

\* a leftward drag of exactly 60px that took exactly 800ms turned the page
C5_Witness ==
    /\ IdleDrag
    /\ ev.dx = -60 /\ ev.dy = 0 /\ ev.dt = 800
    /\ pageNumber = ev.page + 1

\* C6: pageNumber never changes while the view is zoomed: a Prev, Next,
\* thumbnail jump or swipe that changed the page leaves the scale at most 1.02
\* (it was refused while zoomed, or it reset the zoom).
C6_NoPageChangeWhileZoomed ==
    (ev.op \in {"Prev", "Next", "onJump", "onSwipeEnd"} /\ pageNumber # ev.page) =>
        scale <= ZoomedAbove

----------------------------------------------------------------------------
(* Properties of the viewer's fetches, checked under SpecLoad.             *)

\* C7: a response to a fetch that was sent for another posterId than the
\* current one writes none of poster, error and comments.
C7_StaleFetchDiscarded ==
    (ev.op \in {"FetchPosterDone", "FetchCommentsDone"} /\ ev.stale) => ~ev.wrote

----------------------------------------------------------------------------
(* Deleting comments, checked under SpecComments.                          *)

\* the comments GET /api/comments?posterId=q would return from collection cs
ListingOf(cs, q) == Range(CommentsGET(cs, q, TRUE).body)

\* C11: a DELETE /api/comments?id=c that succeeds removes exactly comment c:
\* afterwards the list of every poster is what it was, less c; so c is gone
\* from its poster's list and every other comment of that poster is still
\* there.
C11_DeletedCommentGone ==
    /\ \A id \in CommentIdInputs, dbOk \in BOOLEAN :
          LET r == CommentsDELETE(dbComments, id, dbOk)
          IN  r.status = 200 =>
                  \E c \in Range(dbComments) :
                      /\ Str(Decimal(c._id)) = id
                      /\ \A q \in CommentQueryInputs \ {JNull} :
                            ListingOf(r.db, q) = ListingOf(dbComments, q) \ {c}
    /\ (req.op = "DELETE /api/comments" /\ resp.status = 200) =>
          /\ Str(Decimal(req.removed._id)) = req.id
          /\ \A c \in Range(dbComments) : c._id # req.removed._id
          /\ req.removed \notin ListingOf(dbComments, req.removed.posterId)

\* a comment was deleted and another comment of the same poster is still
\* listed
C11_Witness ==
    /\ req.op = "DELETE /api/comments"
    /\ resp.status = 200
    /\ ListingOf(dbComments, req.removed.posterId) # {}

\* C12: DELETE /api/comments with an id that matches no stored comment
\* answers 404 and leaves the comments collection as it was (the store being
\* reachable).
C12_UnknownCommentNotFound ==
    \A id \in CommentIdInputs \ {JNull} :
        (\A c \in Range(dbComments) : Str(Decimal(c._id)) # id) =>
            LET r == CommentsDELETE(dbComments, id, TRUE)
            IN  r.status = 404 /\ r.db = dbComments

----------------------------------------------------------------------------
(* Adding comments in the viewer, checked under SpecCompose.               *)

\* C13: addComment appends to the viewer's comment list only when the server
\* has confirmed the save, and then appends the stored record; a failed POST
\* leaves the list as it was, as does sending it; so every comment the list
\* shows is in the collection.
C13_AppendAfterConfirm ==
    /\ ev.op = "addCommentDone" =>
          IF ev.ok
          THEN /\ Len(comments) = ev.before + 1
               /\ comments[Len(comments)] \in Range(dbComments)
          ELSE Len(comments) = ev.before
    /\ ev.op \in {"Post", "Shortcut"} => Len(comments) = ev.before
    /\ \A i \in DOMAIN comments : comments[i] \in Range(dbComments)

\* a POST failed and left the list alone, after an earlier add had been
\* confirmed and appended
C13_Witness ==
    /\ ev.op = "addCommentDone"
    /\ ~ev.ok
    /\ Len(comments) = ev.before
    /\ \E i \in DOMAIN comments : comments[i]._id > Len(SeedComments)

----------------------------------------------------------------------------
(* Properties of the upload page, checked under SpecUpload.                *)

\* every alert a failed metadata save can raise
PostFailureAlerts ==
    {PostFailureAlert("network", 0, m) : m \in ThrownMessages}
        \cup {PostFailureAlert("error", st, "") : st \in {400, 500}}

\* C14: the metadata request is awaited only once put() has answered with the
\* blob's URL; a failed put() leaves no metadata request behind it and raises
\* an alert that no failure of the metadata save raises.
C14_BlobFailureDistinct ==
    /\ upload.phase = "post" => upload.url \in BlobUrls
    /\ upload.failed = "put" =>
          /\ upload.phase # "post"
          /\ upload.url = <<>>
          /\ upload.alert \notin PostFailureAlerts

\* C15: the poster the upload page created, fetched by the id the page was
\* given, carries as fileUrl exactly the URL put() returned.
C15_RoundTripFileUrl ==
    (/\ UploadGone
     /\ req.op = "GET /api/posters/{id}"
     /\ req.id = upload.pushed
     /\ resp.status = 200)
        => resp.body.fileUrl = upload.url

----------------------------------------------------------------------------
(* Properties of the comment target, checked under SpecPaged.              *)

\* C16: when the composer has just been opened in add mode, by the panel's
\* Add button or by the mobile Comment button, its page is the page shown.
C16_ComposerOnShownPage ==
    ev.op = "OpenAdd" => composerPage = pageNumber

\* C17: after Prev, Next, a thumbnail click or a swipe the comments panel's
\* page is the page shown.
C17_TargetFollowsPage ==
    ev.op \in {"Prev", "Next", "onJump", "onSwipeEnd"} => commentTargetPage = pageNumber

----------------------------------------------------------------------------
(* Properties of the composer's submit, checked under SpecCompose.         *)

\* C18: while the draft is empty or only whitespace neither the Post / Save
\* button nor Ctrl/Cmd+Enter calls onSubmit: the composer stays open and
\* nothing is sent; no comment POST carries an empty text.
C18_NoBlankSubmit ==
    /\ (ev.op \in {"Post", "Shortcut"} /\ Trim(ev.draft) = <<>>) =>
          /\ ~ev.called
          /\ composerOpen
          /\ Len(posts) = ev.sent
    /\ \A i \in DOMAIN posts : Trim(posts[i].text) # <<>>
    /\ req.op = "POST /api/comments" => Trim(req.body.text.str) # <<>>

\* Ctrl/Cmd+Enter on a draft of one space left the composer open, nothing sent
C18_Witness ==
    /\ ev.op = "Shortcut"
    /\ ev.draft = <<" ">>
    /\ composerOpen
    /\ Len(posts) = ev.sent

----------------------------------------------------------------------------
(* Properties of a failed poster load, checked under SpecLoad.             *)

\* the request for the current posterId has come back and left no poster
LoadFailed ==
    /\ poster = JNull
    /\ [kind |-> "poster", pid |-> posterId] \notin calls

\* C19: once the metadata request for the current posterId has failed, the
\* error is non-empty and the poster unset, and both stay so for as long as
\* posterId does not change: the PDF is never rendered for that id.
C19_FailedLoadPersists ==
    /\ [](LoadFailed => error # "")
    /\ [][(LoadFailed /\ posterId' = posterId) => (poster' = JNull /\ error' # "")]_vars

----------------------------------------------------------------------------
(* Properties of the viewer before its document has loaded, checked under  *)
(* Spec.                                                                   *)

\* the controls and gestures that change the page
Navigation ==
    \/ PrevPage
    \/ NextPage
    \/ \E p \in 1..MaxPages : onJump(p)
    \/ \E x \in StartXs : onSwipeStart(x)
    \/ \E x \in EndXs, y \in EndYs, libFirst \in BOOLEAN : onSwipeEnd(x, y, libFirst)

----------------------------------------------------------------------------
(* Properties of a failed comment load, checked under SpecLoad.            *)

\* C21: when the comment list of the current poster failed to load, the
\* viewer is no longer loading comments and the comment list shows a state
\* of its own: not the loading text, not the empty list, not comments.
C21_CommentLoadFailureShown ==
    (ev.op = "FetchCommentsDone" /\ ~ev.stale /\ ~ev.ok) =>
        /\ ~loadingComments
        /\ CommentsView \notin {"Loading", "No comments yet", "comments"}

----------------------------------------------------------------------------
(* Properties of the zoomed flag, checked under Spec.                      *)

\* C22: after Fit the zoomed flag is off and the scale is 1; with the flag
\* off a single finger landing is recorded as a swipe start; and when a
\* pinch or pan has just stopped the flag says whether the scale is above
\* 1.02, so it is off when the gesture ended at 1.02 or below.
C22_ZoomedFlagFollowsScale ==
    /\ ev.op = "Fit" => ~mobileZoomed /\ scale = 100
    /\ (ev.op = "onSwipeStart" /\ touches = 1 /\ ~mobileZoomed) =>
          swipeStart = [x |-> ev.x, y |-> 0, t |-> ev.t]
    /\ (ev.op = "onSwipeEnd" /\ ev.stopped) => (mobileZoomed <=> scale > 102)

\* a gesture on the zoomed view stopped at scale 1.02 and the flag went off
C22_Witness ==
    /\ ev.op = "onSwipeEnd"
    /\ ev.stopped /\ ev.zoomed
    /\ scale = 102
    /\ ~mobileZoomed

\* C23: a finger lifted while two fingers were down never changes the page,
\* wherever the pinch left the scale; and no swipe start stays recorded once
\* the last finger has lifted, so none is carried into a later gesture.
C23_PinchNeverPages ==
    /\ (ev.op = "onSwipeEnd" /\ ev.fingers = 2) => pageNumber = ev.page
    /\ (ev.op = "onSwipeEnd" /\ touches = 0) => swipeStart = NoSwipe


(***************************************************************************)
(* C24: the composer's draft follows its target                            *)
(***************************************************************************)

\* C24: whenever an open handler points the composer at another target
\* (another mode, page or comment) than the one it was already open on, the
\* draft is reset to the seed text: empty in add mode, the comment's text in
\* edit mode.  A draft typed for one target is then never left to be
\* submitted for another.
C24_DraftResetOnRetarget ==
    (ev.op \in {"OpenAdd", "OpenEdit"} /\ ~ev.same) =>
        /\ composerOpen
        /\ draft = composerInitialText
        /\ composerMode = "add" => draft = <<>>


(***************************************************************************)
(* C25, C26: the scrolling page list                                       *)
(***************************************************************************)

AboveThreshold ==
    {i \in 1..numPages : ThresholdIndex(IntersectionRatio(i, scrollY)) > 0}

\* C26: after each notification of the intersection observer, pageNumber is
\* the page with the greatest visible fraction among all the pages that
\* intersect the viewport above the visibility threshold.
C26_MostVisiblePageIsCurrent ==
    (ev.op = "observer" /\ AboveThreshold # {}) =>
        /\ pageNumber \in AboveThreshold
        /\ \A j \in AboveThreshold :
               IntersectionRatio(j, scrollY) <= IntersectionRatio(pageNumber, scrollY)


(***************************************************************************)
(* C27: poster identifiers                                                 *)
(***************************************************************************)

\* C27: no two posters of the collection share an id, however the POST
\* requests interleave and whatever the clock reads when they are handled,
\* so that a GET or DELETE by id that succeeds addresses exactly one poster.
C27_PosterIdsUnique ==
    /\ \A i, j \in DOMAIN dbPosters : dbPosters[i].id = dbPosters[j].id => i = j
    /\ (req.op \in {"GET /api/posters/{id}", "DELETE /api/posters/{id}"}
          /\ resp.status = 200) =>
           Cardinality({i \in DOMAIN dbPosters : dbPosters[i].id = req.id}) = 1


(***************************************************************************)
(* C29: soft delete is applied once                                        *)
(***************************************************************************)

\* the records stored under an id, and those of them already soft-deleted
WithId(id) == {i \in DOMAIN dbPosters : dbPosters[i].id = id}
DeletedWithId(id) == {i \in WithId(id) : ~IsLive(dbPosters[i])}

\* C29: a DELETE of an existing poster that was never deleted answers ok and
\* sets deletedAt on it; a DELETE of an id that was deleted before, or of an
\* id that no poster has, answers 404 and leaves every record, deletedAt
\* included, as it was.  (A 500 is the database failing.)
C29_SoftDeleteOnce ==
    [][(/\ req'.op = "DELETE /api/posters/{id}"
        /\ <<req, resp, dbPosters>>' # <<req, resp, dbPosters>>
        /\ resp'.status # 500) =>
           IF WithId(req'.id) = {} \/ DeletedWithId(req'.id) # {}
           THEN resp'.status = 404 /\ dbPosters' = dbPosters
           ELSE /\ resp'.status = 200
                /\ \E i \in WithId(req'.id) :
                      dbPosters' = [dbPosters EXCEPT ![i].deletedAt = Date(now)]]_vars


(***************************************************************************)
(* C30: deleting a poster and its comments                                 *)
(***************************************************************************)

\* every poster that posters holds under id has been soft-deleted
DeletedIn(posters, id) ==
    /\ \E p \in Range(posters) : p.id = id
    /\ \A p \in Range(posters) : p.id = id => ~IsLive(p)

\* C30: a DELETE of a poster leaves the comments collection as it was, and a
\* GET /api/comments for the id of a deleted poster still answers with every
\* comment stored for that id.
C30_DeleteKeepsComments ==
    [][/\ req'.op = "DELETE /api/posters/{id}" => dbComments' = dbComments
       /\ (/\ req'.op = "GET /api/comments" /\ resp'.status = 200
           /\ DeletedIn(dbPosters', req'.posterId.str)) =>
              Range(resp'.body) = {c \in Range(dbComments') : c.posterId = req'.posterId}]_vars

\* the comments of a deleted poster have just been served
C30_Witness ==
    /\ req.op = "GET /api/comments" /\ resp.status = 200
    /\ DeletedIn(dbPosters, req.posterId.str)
    /\ resp.body # <<>>
    /\ \A c \in Range(resp.body) : c.posterId = req.posterId


(***************************************************************************)
(* C28: one submit per composer session                                    *)
(***************************************************************************)

\* the open composer takes a submit: the Post button is enabled
\* (disabled={!draft.trim()}) and Ctrl/Cmd+Enter passes its test
\* (if (draft.trim()) onSubmit(draft.trim()))
SubmitReady == Rendered /\ composerOpen /\ Trim(draft) # <<>>

\* C28: once a Post click or Ctrl/Cmd+Enter has sent the draft, the composer
\* takes no further submit while that POST is in flight, so that one
\* session never has two POSTs of the same draft under way.
C28_OneSubmitPerSession ==
    /\ (ev.op \in {"Post", "Shortcut"} /\ ev.called) => ~SubmitReady
    /\ \A i, j \in DOMAIN posts : posts[i] = posts[j] => i = j

====
